---- MODULE Spec2Model ----
(***************************************************************************)
(* The concurrent crawl of IMSScraper (src/crawler/ims_scraper.py):        *)
(* crawl() authenticates, searches, submits one _crawl_with_related_parallel*)
(* call per search hit to a ThreadPoolExecutor and collects the futures;   *)
(* every call claims its issue id in the shared set crawled_issue_ids,     *)
(* opens a browser of its own, logs in, fetches, saves and recurses into   *)
(* the related issues.                                                     *)
(***************************************************************************)
EXTENDS Integers, Sequences, FiniteSets, Bags, TLC

\* ---------------------------------------------------------------- bounds
\* Largest number of search hits explored.
MaxSeeds == 7
\* Largest max_depth explored (the smallest is -1: --max-depth is any int).
MaxDepthBound == 1
\* Largest number of injected failures (browser start, login, fetch, file
\* write, browser cleanup) in one run.
MaxFailures == 1
\* Largest seed count for which the worker sizing function is tabulated.
MaxSizing == 120
\* Longest keywords string given to build_query.
MaxLen == 3
\* Number of threads standing at the locked sections.
MaxLockThreads == 4

\* ------------------------------------------------------ program constants
MinWorkers == 1
MaxWorkers == 10

\* ------------------------------------------------------------- the inputs
\* The id of the i-th search hit.  The third hit repeats the id of the
\* first: _execute_search appends one URL per result row and never removes
\* a repeated id.
SearchHit(i) == IF i < 3 THEN i ELSE IF i = 3 THEN 1 ELSE i - 1

\* The id that is never a search hit and is reached through related
\* references only.
ExtraId == 0

IssueIds == 0..MaxSeeds

\* issue_data['related_issues'] of each issue, in page order: 1 and 2 both
\* name ExtraId, 1 names the seed 2, 2 names 3 (a search hit only from four
\* hits on, and named by no other issue), ExtraId names 1 back (a cycle)
\* and itself.
RelatedOf(id) ==
    IF id = 1 THEN <<ExtraId, 2>>
    ELSE IF id = 2 THEN <<ExtraId, 3>>
    ELSE IF id = ExtraId THEN <<ExtraId, 1>>
    ELSE <<>>

\* len(issue_data['attachments']) of each issue.
AttachmentsOf(id) == IF id \in {ExtraId, 1} THEN 2 ELSE 0

\* crawl_duration_ms of a successful fetch of id.
DurationMs(id) == id + 1

Max(a, b) == IF a >= b THEN a ELSE b
Min(a, b) == IF a <= b THEN a ELSE b

\* round(len(issue_links) * 0.3), halves upward.
RoundOfThirtyPercent(n) == (3 * n + 5) \div 10

\* int(len(issue_links) * 0.3): the IEEE double product truncated toward
\* zero equals (3n) div 10 for every n up to 100000.
IntOfThirtyPercent(n) == (3 * n) \div 10

\* Line 181 without max and min.
WorkerCountUnclamped(n) == IntOfThirtyPercent(n)

\* num_workers = max(1, min(10, int(len(issue_links) * 0.3)))
WorkerCount(n) == Max(MinWorkers, Min(MaxWorkers, IntOfThirtyPercent(n)))

\* ------------------------------------------------------------------ state
VARIABLES
    pc,              \* position of the thread that runs crawl()
    exc,             \* the exception crawl() raised, "none" if none
    crawl_related,   \* argument of crawl()
    max_depth,       \* argument of crawl()
    session_id,      \* DatabaseSaver.session_id, 0 for None (also when
                     \* self.db_saver is None or not enabled)
    db_status,       \* CrawlSession.status of the record, "none" if no record
    db_stats,        \* the statistics complete_session wrote
    session_errors,  \* error_type of the SessionError rows, in order
    issue_links,     \* the search result: ids in rank order
    num_workers,     \* size of the thread pool
    queue,           \* ranks of the submitted calls no thread has taken yet
    stack,           \* per pool thread, its stack of running calls
    crawled_issue_ids, \* the shared dedup set
    done,            \* finished futures not yet seen by as_completed
    pending,         \* number of futures as_completed has yet to yield
    all_crawled_issues, \* the list crawl() builds and returns, as a bag:
                     \* the crawl reads its length and its members only
    issue_times,     \* self._issue_times as a bag of durations
    files,           \* per id, the number of JSON files written for it
    locks,           \* the threading.Lock objects of the scraper: per lock
                     \* its holder (0 if free), and per thread where it
                     \* stands with respect to the two locked sections
    call,            \* one call of a function outside the crawl
                     \* (build_query, parse): arguments and result
    log              \* what happened, for stating the properties: the ids
                     \* and the number of the calls that raised before
                     \* saving, the number of calls dropped as duplicates,
                     \* the number of other failures (file write,
                     \* browser cleanup, database), how many of those were
                     \* database failures, the ids whose save_issue failed
                     \* in the database, per kind the browser resources
                     \* that were started and never closed, and the ids
                     \* for which a step of process_attachments raised

vars == <<pc, exc, crawl_related, max_depth, session_id, db_status,
          db_stats, session_errors, issue_links, num_workers, queue, stack,
          crawled_issue_ids, done, pending, all_crawled_issues,
          issue_times, files, call, locks, log>>

\* ---------------------------------------------------------------- helpers
\* The statistics columns of a CrawlSession record; -1 stands for a column
\* that was never written (None).
NoStats == [found |-> -1, crawled |-> -1, failed |-> -1, related |-> -1,
            avg |-> -1, workers |-> -1]

\* complete_session(status='failed') passes no statistics: the defaults.
DefaultStats == [found |-> 0, crawled |-> 0, failed |-> 0, related |-> 0,
                 avg |-> -1, workers |-> 1]

\* One running call of _crawl_with_related_parallel: its arguments
\* (order 0 stands for crawl_order=None), its position, the related issues
\* its loop has not visited yet, its local list `result`, whether an
\* exception is propagating out of it, and its local `page` (<<>> before
\* line 331).
Frame(id, depth, order) ==
    [id |-> id, depth |-> depth, order |-> order, pc |-> "claim",
     todo |-> <<>>, result |-> <<>>, raising |-> FALSE, page |-> <<>>]

\* issue_data as far as the crawl uses it.  order is issue_data
\* ['crawl_order'], 0 when the key is absent; depth is not in the dict: it
\* records the depth of the call that fetched the issue.
IssueData(id, order, depth) == [id |-> id, order |-> order, depth |-> depth]

Top(w) == stack[w][Len(stack[w])]

Running(w) == stack[w] # <<>>

\* The members of a list, with their multiplicities.
RECURSIVE SeqToBag(_)
SeqToBag(s) ==
    IF s = <<>> THEN EmptyBag ELSE SetToBag({Head(s)}) (+) SeqToBag(Tail(s))

RECURSIVE SumBagOver(_, _)
SumBagOver(b, S) ==
    IF S = {} THEN 0
    ELSE LET x == CHOOSE y \in S : TRUE
         IN  x * b[x] + SumBagOver(b, S \ {x})

\* sum(self._issue_times)
SumOfTimes(b) == SumBagOver(b, DOMAIN b)

\* Number of failures so far.
Faults == log.nfailed + log.other

\* The outcomes of one database operation of DatabaseSaver after f failures:
\* it returns at once without a session id, and it catches its own errors.
Db(f) == IF session_id = 0 THEN {"skip"}
         ELSE IF f < MaxFailures THEN {"ok", "fail"} ELSE {"ok"}

Cost(o) == IF o = "fail" THEN 1 ELSE 0

Failed(id) == [log EXCEPT !.failed = @ \cup {id}, !.nfailed = @ + 1]

Other(k) == [log EXCEPT !.other = @ + k]

\* k database operations failed inside DatabaseSaver.
DbFailed(k) == [log EXCEPT !.other = @ + k, !.db = @ + k]

\* The browser resources a call starts, in the order of lines 328-331, and
\* closes, in the order of lines 399-401 (the context goes with its browser).
Resources == {"playwright", "browser", "page"}

NoLeak == [r \in Resources |-> 0]

\* The resources in rs were started by a call that ended without closing
\* them.
Leaked(l, rs) ==
    [l EXCEPT !.leaked = [r \in Resources |->
                             IF r \in rs THEN @[r] + 1 ELSE @[r]]]

\* No function outside the crawl is being called.
NoCall == [op |-> "none"]

\* The threads that may stand at a locked section at once.
LockThreads == 1..MaxLockThreads

\* The threading.Lock objects the scraper creates (__init__, line 66).
LockObjects == {"_crawled_lock"}

\* The lock of `with self._crawled_lock:` at lines 319 and 394, around the
\* test, the add and the discard on crawled_issue_ids.
DedupLock == "_crawled_lock"

\* The lock of `with self._crawled_lock:` at line 813, around
\* self._issue_times.append.
StatsLock == "_crawled_lock"

\* Every lock free, every thread outside the locked sections.
FreeLocks == [holder |-> [l \in LockObjects |-> 0],
              at |-> [t \in LockThreads |-> <<"outside">>]]

\* ------------------------------------------------------------------- Init
\* The scraper after __init__ and __enter__, at the call of crawl().
CrawlInit ==
    /\ pc = "start"
    /\ exc = "none"
    /\ crawl_related \in BOOLEAN
    /\ max_depth \in IF crawl_related THEN -1..MaxDepthBound
                    ELSE {MaxDepthBound}
    /\ session_id = 0
    /\ db_status = "none"
    /\ db_stats = NoStats
    /\ session_errors = <<>>
    /\ issue_links = <<>>
    /\ num_workers = 0
    /\ queue = <<>>
    /\ stack = <<>>
    /\ crawled_issue_ids = {}
    /\ done = <<>>
    /\ pending = 0
    /\ all_crawled_issues = EmptyBag
    /\ issue_times = EmptyBag
    /\ files = [i \in IssueIds |-> 0]
    /\ log = [failed |-> {}, nfailed |-> 0, ndropped |-> 0, other |-> 0,
              db |-> 0, dbfailed |-> {}, leaked |-> NoLeak, attach |-> {}]

Init ==
    /\ CrawlInit
    /\ call = NoCall
    /\ locks = FreeLocks

\* ------------------------------------------------- the thread of crawl()
crawlVars == <<issue_links, num_workers, queue, stack, crawled_issue_ids,
               done, pending, all_crawled_issues, issue_times, files, call, locks>>

\* crawl(), lines 118-137: the session record is created with status
\* 'running', unless there is no database saver or create_session fails.
CreateSession ==
    /\ pc = "start"
    /\ \/ /\ session_id' = 1
          /\ db_status' = "running"
       \/ /\ session_id' = 0
          /\ db_status' = db_status
    /\ pc' = "auth"
    /\ UNCHANGED <<exc, crawl_related, max_depth, db_stats, session_errors,
                   log>>
    /\ UNCHANGED crawlVars

\* The except clauses of crawl() without the raise: crawl() returns.
FailSessionSwallowed(type, e) ==
    /\ \E o1 \in Db(Faults) : \E o2 \in Db(Faults + Cost(o1)) :
         /\ session_errors' = IF o1 = "ok" THEN Append(session_errors, type)
                              ELSE session_errors
         /\ db_status' = IF o2 = "ok" THEN "failed" ELSE db_status
         /\ db_stats' = IF o2 = "ok" THEN DefaultStats ELSE db_stats
         /\ log' = DbFailed(Cost(o1) + Cost(o2))
    /\ pc' = "returned"
    /\ exc' = exc
    /\ UNCHANGED <<crawl_related, max_depth, session_id>>

\* The except clauses of crawl() without complete_session.
FailSessionRunning(type, e) ==
    /\ \E o1 \in Db(Faults) :
         /\ session_errors' = IF o1 = "ok" THEN Append(session_errors, type)
                              ELSE session_errors
         /\ log' = DbFailed(Cost(o1))
    /\ pc' = "raised"
    /\ exc' = e
    /\ UNCHANGED <<crawl_related, max_depth, session_id, db_status, db_stats>>

\* The two except clauses of crawl(): save_error, then
\* complete_session(status='failed'), then re-raise.
FailSession(type, e) ==
    /\ \E o1 \in Db(Faults) : \E o2 \in Db(Faults + Cost(o1)) :
         /\ session_errors' = IF o1 = "ok" THEN Append(session_errors, type)
                              ELSE session_errors
         /\ db_status' = IF o2 = "ok" THEN "failed" ELSE db_status
         /\ db_stats' = IF o2 = "ok" THEN DefaultStats ELSE db_stats
         /\ log' = DbFailed(Cost(o1) + Cost(o2))
    /\ pc' = "raised"
    /\ exc' = e
    /\ UNCHANGED <<crawl_related, max_depth, session_id>>

\* Step 1: auth_manager.login on the primary page.
LoginOk ==
    /\ pc = "auth"
    /\ pc' = "search"
    /\ UNCHANGED <<exc, crawl_related, max_depth, session_id, db_status,
                   db_stats, session_errors, log>>
    /\ UNCHANGED crawlVars

\* Step 1 raises AuthenticationError (login wraps every error in it).
LoginFails ==
    /\ pc = "auth"
    /\ FailSession("authentication_error", "AuthenticationError")
    /\ UNCHANGED crawlVars

\* Step 3: _execute_search raises.
SearchFails ==
    /\ pc = "search"
    /\ FailSession("crawl_failure", "Exception")
    /\ UNCHANGED crawlVars

\* The pool and the calls submitted for n search hits, lines 180-198.
Submit(n) ==
    /\ issue_links' = [i \in 1..n |-> SearchHit(i)]
    /\ num_workers' = WorkerCount(n)
    /\ queue' = [i \in 1..n |-> i]
    /\ stack' = [w \in 1..WorkerCount(n) |-> <<>>]
    /\ pending' = n

\* Steps 3 and 4 up to the end of the submit loop: n hits, the search query
\* is saved to the database (lines 160-171), the pool is sized and one call
\* per hit is submitted in rank order.
SearchOk ==
    /\ pc = "search"
    /\ \E n \in 0..MaxSeeds : Submit(n)
    /\ \E o \in Db(Faults) : log' = DbFailed(Cost(o))
    /\ pc' = "crawling"
    /\ UNCHANGED <<exc, crawl_related, max_depth, session_id, db_status,
                   db_stats, session_errors, crawled_issue_ids, done,
                   all_crawled_issues, issue_times, files, call, locks>>

\* One turn of the as_completed loop, lines 201-220.
Collect ==
    /\ pc = "crawling"
    /\ done # <<>>
    /\ LET f == Head(done) IN
         IF f.ok
         THEN /\ all_crawled_issues' = all_crawled_issues (+) SeqToBag(f.issues)
              /\ UNCHANGED <<session_errors, log>>
         ELSE /\ all_crawled_issues' = all_crawled_issues
              /\ \E o \in Db(Faults) :
                   /\ session_errors' = IF o = "ok"
                                        THEN Append(session_errors, "crawl_error")
                                        ELSE session_errors
                   /\ log' = DbFailed(Cost(o))
    /\ done' = Tail(done)
    /\ pending' = pending - 1
    /\ UNCHANGED <<pc, exc, crawl_related, max_depth, session_id, db_status,
                   db_stats, issue_links, num_workers, queue, stack,
                   crawled_issue_ids, issue_times, files, call, locks>>

\* failed_issues as line 243 computes it.
FailedIssues ==
    Len(issue_links)
    - BagCardinality([i \in {j \in DOMAIN all_crawled_issues :
                                j.order <= Len(issue_links)}
                      |-> all_crawled_issues[i]])

\* related_issues as line 236 computes it.
RelatedIssues == BagCardinality(all_crawled_issues) - Len(issue_links)

\* avg_issue_time_ms as line 232 computes it.
AvgIssueTime ==
    IF BagCardinality(issue_times) > 0
    THEN SumOfTimes(issue_times) \div BagCardinality(issue_times)
    ELSE 0

FinalStats ==
    [found |-> Len(issue_links), crawled |-> BagCardinality(all_crawled_issues),
     failed |-> FailedIssues, related |-> RelatedIssues,
     avg |-> AvgIssueTime, workers |-> num_workers]

\* The with block left after the first future.
FirstFutureSeen == pending < Len(issue_links) \/ pending = 0

\* Lines 201 and 185: the as_completed loop ends when it has yielded every
\* submitted future, and the with block then joins the pool threads.
AllFuturesSeen == pending = 0

\* Lines 222-254: every future has been seen, the pool is shut down, the
\* statistics are written with status 'completed' and the list is returned.
Complete ==
    /\ pc = "crawling"
    /\ AllFuturesSeen
    /\ \E o \in Db(Faults) :
         /\ db_status' = IF o = "ok" THEN "completed" ELSE db_status
         /\ db_stats' = IF o = "ok" THEN FinalStats ELSE db_stats
         /\ log' = DbFailed(Cost(o))
    /\ pc' = "returned"
    /\ UNCHANGED <<exc, crawl_related, max_depth, session_id, session_errors>>
    /\ UNCHANGED crawlVars

\* ------------------------------------------------------- the pool threads
mainVars == <<pc, exc, crawl_related, max_depth, session_id, db_status,
              db_stats, session_errors, issue_links, num_workers, pending,
              all_crawled_issues, call, locks>>

SetTop(w, f) == [stack EXCEPT ![w][Len(stack[w])] = f]

\* A call that raised never completes its future.
CompletedIfOk(rank, ok, res) ==
    IF pc = "shutdown" \/ ~ok THEN done
    ELSE Append(done, [rank |-> rank, ok |-> ok, issues |-> res])

\* The futures as_completed has to yield after the call submitted for rank
\* has ended; once the main thread has left the loop nothing reads them.
Completed(rank, ok, res) ==
    IF pc = "shutdown" THEN done
    ELSE Append(done, [rank |-> rank, ok |-> ok,
                       issues |-> IF ok THEN res ELSE <<>>])

\* Finish without the try/except of lines 378 and 387-389: the exception
\* of a related call goes on into the except clause of its caller.
FinishUncaught(w, ok, res) ==
    LET n == Len(stack[w]) IN
    IF n > 1
    THEN LET parent == stack[w][n - 1]
             after == IF ok THEN [parent EXCEPT !.result = @ \o res]
                      ELSE [parent EXCEPT !.pc = "except"]
         IN  /\ stack' = [stack EXCEPT ![w] = Append(SubSeq(@, 1, n - 2), after)]
             /\ done' = done
    ELSE /\ stack' = [stack EXCEPT ![w] = <<>>]
         /\ done' = Completed(stack[w][1].order, ok, res)

\* The running call of thread w ends: with the list res (ok), or with an
\* exception.  A related call hands it to the loop of its caller, lines
\* 378-389 (extend, or log and continue); a submitted call completes its
\* future.
Finish(w, ok, res) ==
    LET n == Len(stack[w]) IN
    IF n > 1
    THEN LET parent == stack[w][n - 1]
             after == IF ok THEN [parent EXCEPT !.result = @ \o res]
                      ELSE parent
         IN  /\ stack' = [stack EXCEPT ![w] = Append(SubSeq(@, 1, n - 2), after)]
             /\ done' = done
    ELSE /\ stack' = [stack EXCEPT ![w] = <<>>]
         /\ done' = Completed(stack[w][1].order, ok, res)

\* The test of line 320 left out.
NeverCrawled(id) == FALSE

\* Line 320: issue_id in crawled_issue_ids.
AlreadyCrawled(id) == id \in crawled_issue_ids

\* Line 364 with <= for <.
MayExpandOneMore(depth) == crawl_related /\ depth <= max_depth

\* Line 364: crawl_related and current_depth < max_depth.
MayExpand(depth) == crawl_related /\ depth < max_depth

\* Lines 379-385 passing crawl_order=crawl_order on.
ParentOrder(order) == order

\* Lines 379-385: the nested call gets no crawl_order (None), whatever the
\* order of its caller.
ChildOrder(order) == 0

\* self.page, created by the thread of crawl() in __enter__ (line 78).
PrimaryPage == <<0, 0>>

\* Every call navigates self.page.
SharedPage(w, k) == PrimaryPage

\* Line 331: page = context.new_page(), a local of the k-th nested call of
\* pool thread w, which is the page lines 343, 348 and 399 use.
NewPage(w, k) == <<w, k>>

\* The exception of DatabaseSaver.save_issue leaves _save_issue and goes to
\* the except clause of the call.
AfterSaveDbRaises(expand, o) ==
    IF o = "fail" THEN "except" ELSE IF expand THEN "related" ELSE "finally"

\* Where the call goes on after _save_issue returned, whatever the outcome
\* o of its database write (lines 816-830 catch it): line 364.
AfterSave(expand, o) == IF expand THEN "related" ELSE "finally"

\* issue_dir.mkdir raises in process_attachments (attachment_processor
\* line 40): nothing catches it before the except clause of the call
\* (_crawl_issue_detail_with_page lines 442-444 raise it again).
MkdirRaised == "except"

\* A download or a text extraction raises (attachment_processor lines
\* 62-100): it is caught and logged per attachment, the loop goes on and
\* the fetch returns issue_data.
DownloadRaised == "save"

\* A free pool thread takes the oldest submitted call.  Threads are
\* interchangeable, so the free thread of least index takes it.
TakeTask(w) ==
    /\ pc \in {"crawling", "shutdown"}
    /\ queue # <<>>
    /\ ~Running(w)
    /\ \A v \in 1..(w - 1) : Running(v)
    /\ stack' = [stack EXCEPT
                   ![w] = <<Frame(issue_links[Head(queue)], 0, Head(queue))>>]
    /\ queue' = Tail(queue)
    /\ UNCHANGED <<crawled_issue_ids, done, issue_times, files, log>>
    /\ UNCHANGED mainVars

\* Lines 318-323: test and add under self._crawled_lock.
Claim(w) ==
    /\ Running(w)
    /\ Top(w).pc = "claim"
    /\ IF AlreadyCrawled(Top(w).id)
       THEN /\ Finish(w, TRUE, <<>>)
            /\ crawled_issue_ids' = crawled_issue_ids
            /\ log' = [log EXCEPT !.ndropped = @ + 1]
       ELSE /\ crawled_issue_ids' = crawled_issue_ids \cup {Top(w).id}
            /\ stack' = SetTop(w, [Top(w) EXCEPT !.pc = "open"])
            /\ UNCHANGED <<done, log>>
    /\ UNCHANGED <<queue, issue_times, files>>
    /\ UNCHANGED mainVars

\* Lines 327-343: playwright, browser, context and page of this call are
\* started, then auth_manager.login(page, context) runs inside the try.  A
\* login that raises goes to the except clause.
OpenSession(w) ==
    /\ Running(w)
    /\ Top(w).pc = "open"
    /\ \/ /\ stack' = SetTop(w, [Top(w) EXCEPT
                                  !.pc = "fetch",
                                  !.page = NewPage(w, Len(stack[w]))])
          /\ log' = log
       \/ /\ Faults < MaxFailures
          /\ log' = Failed(Top(w).id)
          /\ stack' = SetTop(w, [Top(w) EXCEPT
                                  !.pc = "except",
                                  !.page = NewPage(w, Len(stack[w]))])
    /\ UNCHANGED <<queue, crawled_issue_ids, done, issue_times, files>>
    /\ UNCHANGED mainVars

\* The resources started before the k-th of the statements of lines
\* 328-331 (playwright start, browser launch, context and page).
StartedBefore(k) ==
    IF k = 1 THEN {} ELSE IF k = 2 THEN {"playwright"}
    ELSE {"playwright", "browser"}

\* The resources whose close comes after the k-th of the statements of
\* lines 399-401 (page.close, browser.close, playwright.stop).
ClosedAfter(k) ==
    IF k = 1 THEN {"browser", "playwright"} ELSE IF k = 2 THEN {"playwright"}
    ELSE {}

\* Lines 327-331 raise: they stand before the try, so the exception leaves
\* the call at once, past the except and the finally clause.
OpenBrowserFails(w) ==
    /\ Running(w)
    /\ Top(w).pc = "open"
    /\ Faults < MaxFailures
    /\ Finish(w, FALSE, <<>>)
    /\ \E k \in 1..3 : log' = Leaked(Failed(Top(w).id), StartedBefore(k))
    /\ UNCHANGED <<queue, crawled_issue_ids, issue_times, files>>
    /\ UNCHANGED mainVars

\* Line 348: _crawl_issue_detail_with_page navigates, parses and, for an
\* issue with attachments, calls process_attachments (lines 433-438).  That
\* creates the directory of the issue outside any try (attachment_processor
\* lines 39-40) and downloads each attachment inside one (lines 42-46).
Fetch(w) ==
    /\ Running(w)
    /\ Top(w).pc = "fetch"
    /\ \/ /\ stack' = SetTop(w, [Top(w) EXCEPT !.pc = "save"])
          /\ log' = log
       \/ /\ Faults < MaxFailures
          /\ log' = Failed(Top(w).id)
          /\ stack' = SetTop(w, [Top(w) EXCEPT !.pc = "except"])
       \/ /\ Faults < MaxFailures
          /\ AttachmentsOf(Top(w).id) > 0
          /\ log' = [Failed(Top(w).id) EXCEPT !.attach = @ \cup {Top(w).id}]
          /\ stack' = SetTop(w, [Top(w) EXCEPT !.pc = MkdirRaised])
       \/ /\ Faults < MaxFailures
          /\ AttachmentsOf(Top(w).id) > 0
          /\ log' = [Other(1) EXCEPT !.attach = @ \cup {Top(w).id}]
          /\ stack' = SetTop(w, [Top(w) EXCEPT !.pc = DownloadRaised])
    /\ UNCHANGED <<queue, crawled_issue_ids, done, issue_times, files>>
    /\ UNCHANGED mainVars

\* Lines 354-364: the issue is appended to result and _save_issue is called;
\* then the related loop is entered if crawl_related and the depth allow.
\* _save_issue (lines 799-830) writes the JSON file, appends the duration
\* to self._issue_times and saves the issue to the database; it catches
\* every exception, so a failed write only skips the rest of it.
SaveIssue(w) ==
    /\ Running(w)
    /\ Top(w).pc = "save"
    /\ LET t == Top(w)
           expand == MayExpand(t.depth)
           After(o) ==
               LET next == AfterSave(expand, o) IN
               SetTop(w,
                [t EXCEPT !.result = Append(@, IssueData(t.id, t.order, t.depth)),
                          !.pc = next,
                          !.todo = IF next = "related" THEN RelatedOf(t.id)
                                   ELSE <<>>])
       IN  \/ /\ files' = [files EXCEPT ![t.id] = @ + 1]
              /\ issue_times' =
                   IF DurationMs(t.id) # 0
                   THEN issue_times (+) SetToBag({DurationMs(t.id)})
                   ELSE issue_times
              /\ \E o \in Db(Faults) :
                   /\ stack' = After(o)
                   /\ log' = IF o = "fail"
                             THEN [DbFailed(1) EXCEPT !.dbfailed = @ \cup {t.id}]
                             ELSE log
           \/ /\ Faults < MaxFailures
              /\ stack' = After("skip")
              /\ log' = Other(1)
              /\ UNCHANGED <<files, issue_times>>
    /\ UNCHANGED <<queue, crawled_issue_ids, done>>
    /\ UNCHANGED mainVars

\* Lines 369-385: the next related issue is crawled by a nested call at
\* depth + 1 without a crawl order; after the last one the try block ends.
CrawlRelated(w) ==
    /\ Running(w)
    /\ Top(w).pc = "related"
    /\ LET t == Top(w) IN
         IF t.todo = <<>>
         THEN stack' = SetTop(w, [t EXCEPT !.pc = "finally"])
         ELSE stack' = [stack EXCEPT ![w] =
                  Append(SubSeq(@, 1, Len(@) - 1) \o <<[t EXCEPT !.todo = Tail(@)]>>,
                         Frame(Head(t.todo), t.depth + 1, ChildOrder(t.order)))]
    /\ UNCHANGED <<queue, crawled_issue_ids, done, issue_times, files, log>>
    /\ UNCHANGED mainVars

\* Lines 391-396: the id is discarded under the lock and the exception is
\* raised again.
Release(w) ==
    /\ Running(w)
    /\ Top(w).pc = "except"
    /\ crawled_issue_ids' = crawled_issue_ids \ {Top(w).id}
    /\ stack' = SetTop(w, [Top(w) EXCEPT !.pc = "finally", !.raising = TRUE])
    /\ UNCHANGED <<queue, done, issue_times, files, log>>
    /\ UNCHANGED mainVars

\* Lines 397-403: page, browser and playwright are closed, then the call
\* returns result or lets its exception go on.  A close that raises makes
\* the call end with that exception.
Cleanup(w) ==
    /\ Running(w)
    /\ Top(w).pc = "finally"
    /\ LET t == Top(w) IN
         \/ /\ Finish(w, ~t.raising, t.result)
            /\ log' = log
         \/ /\ Faults < MaxFailures
            /\ Finish(w, FALSE, <<>>)
            /\ \E k \in 1..3 : log' = Leaked(Other(1), ClosedAfter(k))
    /\ UNCHANGED <<queue, crawled_issue_ids, issue_times, files>>
    /\ UNCHANGED mainVars

\* The main thread, blocked in as_completed, handles a finished future
\* before the pool threads take another step.
PoolStep ==
    /\ done = <<>>
    /\ \E w \in 1..num_workers :
         \/ TakeTask(w)
         \/ Claim(w)
         \/ OpenSession(w)
         \/ OpenBrowserFails(w)
         \/ Fetch(w)
         \/ SaveIssue(w)
         \/ CrawlRelated(w)
         \/ Release(w)
         \/ Cleanup(w)

Next ==
    \/ CreateSession
    \/ LoginOk
    \/ LoginFails
    \/ SearchOk
    \/ SearchFails
    \/ Collect
    \/ Complete
    \/ PoolStep

Spec == Init /\ [][Next]_vars

\* The crawl with threads that keep running: as long as a step of the
\* thread of crawl() or of a pool thread is possible, one is taken (every
\* browser operation returns or raises, by its timeout).
SpecLive == Init /\ [][Next]_vars /\ WF_vars(Next)

\* ------------------------------------------------------- an interrupt
\* KeyboardInterrupt reaches the main thread inside the with block of line
\* 185: the block is left through ThreadPoolExecutor.__exit__, which is
\* shutdown(wait=True) and cancels nothing.
Interrupt ==
    /\ pc = "crawling"
    /\ pc' = "shutdown"
    /\ done' = <<>>
    /\ UNCHANGED <<exc, crawl_related, max_depth, session_id, db_status,
                   db_stats, session_errors, log, issue_links, num_workers,
                   queue, stack, crawled_issue_ids, pending,
                   all_crawled_issues, issue_times, files, call, locks>>

\* The pool has run every submitted call and its threads have ended: the
\* KeyboardInterrupt goes on through crawl(), whose except clauses (lines
\* 256 and 270) catch Exception only, to main.py lines 464-466.
Abort ==
    /\ pc = "shutdown"
    /\ queue = <<>>
    /\ \A w \in 1..num_workers : ~Running(w)
    /\ pc' = "raised"
    /\ exc' = "KeyboardInterrupt"
    /\ UNCHANGED <<crawl_related, max_depth, session_id, db_status,
                   db_stats, session_errors, log>>
    /\ UNCHANGED crawlVars

NextCancel ==
    \/ Next
    \/ Interrupt
    \/ Abort

SpecCancel == Init /\ [][NextCancel]_vars

\* ------------------------------------------- the worker sizing function
\* crawl() from the search on, with every seed count up to MaxSizing, to
\* tabulate the pool size of lines 180-185.
SizingInit ==
    /\ Init
    /\ ~crawl_related

SizePool ==
    /\ pc = "start"
    /\ \E n \in 0..MaxSizing : Submit(n)
    /\ pc' = "sized"
    /\ UNCHANGED <<exc, crawl_related, max_depth, session_id, db_status,
                   db_stats, session_errors, crawled_issue_ids, done,
                   all_crawled_issues, issue_times, files, call, locks, log>>

SpecSizing == SizingInit /\ [][SizePool]_vars

\* ------------------------------------- SearchQueryBuilder.build_query
\* Everything but `call` and `locks`.
crawlState == <<pc, exc, crawl_related, max_depth, session_id, db_status,
                db_stats, session_errors, issue_links, num_workers, queue,
                stack, crawled_issue_ids, done, pending, all_crawled_issues,
                issue_times, files, log>>

\* Strings are sequences of characters.
Chars == {" ", "e", "+"}

Strings(n) == UNION {[1..k -> Chars] : k \in 0..n}

\* Optional[str]: None, or a string.
None == [none |-> TRUE, s |-> <<>>]

Some(str) == [none |-> FALSE, s |-> str]

RECURSIVE LStrip(_)
LStrip(str) ==
    IF str # <<>> /\ Head(str) = " " THEN LStrip(Tail(str)) ELSE str

RECURSIVE RStrip(_)
RStrip(str) ==
    IF str # <<>> /\ str[Len(str)] = " "
    THEN RStrip(SubSeq(str, 1, Len(str) - 1)) ELSE str

\* str.strip()
Strip(str) == RStrip(LStrip(str))

\* " ".join(parts)
RECURSIVE Join(_)
Join(parts) ==
    IF parts = <<>> THEN <<>>
    ELSE IF Len(parts) = 1 THEN parts[1]
    ELSE parts[1] \o <<" ">> \o Join(Tail(parts))

\* search.py lines 45-58.  `if product:` holds for a non-empty string;
\* `if keywords:` holds for a non-empty string, blank or not.
build_query(keywords, product) ==
    LET with_product == IF ~product.none /\ product.s # <<>>
                        THEN << <<"+">> \o product.s >> ELSE <<>>
        query_parts == IF keywords # <<>>
                       THEN Append(with_product, Strip(keywords))
                       ELSE with_product
    IN  Join(query_parts)

Products == {None, Some(<<>>), Some(<<"T">>)}

QueryInit ==
    /\ CrawlInit
    /\ ~crawl_related
    /\ call \in [op : {"build_query"}, keywords : Strings(MaxLen),
                  product : Products, returned : {FALSE}, ret : {<<>>}]
    /\ locks = FreeLocks

BuildQuery ==
    /\ call.op = "build_query"
    /\ ~call.returned
    /\ call' = [call EXCEPT !.returned = TRUE,
                            !.ret = build_query(call.keywords, call.product)]
    /\ UNCHANGED <<crawlState, locks>>

SpecQuery == QueryInit /\ [][BuildQuery]_vars

\* --------------------------------------------- NaturalLanguageParser.parse
\* The intents _detect_intent returns.
Intents == {"AND", "OR", "PHRASE", "MIXED", "SIMPLE"}

\* What the LLM client does when it is called: it answers, it raises its
\* LLMError, or something else raises (a timeout outside requests, a
\* response that is no string).
LlmOutcomes == {"ok", "LLMError", "Exception"}

\* nl_parser.py lines 216-260, in hundredths: the confidence of the rule
\* result.  For MIXED, a and b say that the query has AND terms and OR
\* terms; for SIMPLE, that it has high and medium priority terms.
RuleConfidence(intent, a, b) ==
    IF intent \in {"AND", "OR"} THEN 90
    ELSE IF intent = "PHRASE" THEN 95
    ELSE IF intent = "MIXED" THEN (IF a /\ b THEN 80 ELSE 75)
    ELSE IF a /\ b THEN 75
    ELSE IF a THEN 80
    ELSE 60

\* _parse_with_rules: method 'rules'.
parse_with_rules(q) ==
    [raised |-> "none", method |-> "rules", ims_query |-> "from rules",
     confidence |-> RuleConfidence(q.intent, q.a, q.b), llm_calls |-> 0]

\* _parse_with_llm letting the exception of the client through.
Unwrapped(e) == e

\* nl_parser.py lines 707-708: except Exception raises LLMError.
Wrapped(e) == "LLMError"

\* _parse_with_llm, lines 685-708: method 'llm', confidence 0.8.
parse_with_llm(q) ==
    IF ~q.client THEN [raised |-> "LLMError", llm_calls |-> 0]
    ELSE IF q.llm = "ok"
    THEN [raised |-> "none", method |-> "llm", ims_query |-> "from llm",
          confidence |-> 80, llm_calls |-> 1]
    ELSE [raised |-> Wrapped(q.llm), llm_calls |-> 1]

\* nl_parser.py lines 148-167.
parse(q) ==
    IF q.empty THEN [raised |-> "ParsingError", llm_calls |-> 0]
    ELSE LET rules == parse_with_rules(q) IN
         IF rules.confidence < 70 /\ q.client
         THEN LET llm == parse_with_llm(q) IN
              IF llm.raised = "none" THEN llm
              ELSE IF llm.raised = "LLMError"
              THEN [rules EXCEPT !.llm_calls = llm.llm_calls]
              ELSE llm
         ELSE rules

ParseInit ==
    /\ CrawlInit
    /\ ~crawl_related
    /\ call \in [op : {"parse"}, empty : BOOLEAN, intent : Intents,
                  a : BOOLEAN, b : BOOLEAN, client : BOOLEAN,
                  llm : LlmOutcomes, returned : {FALSE}, ret : {<<>>}]
    /\ locks = FreeLocks

Parse ==
    /\ call.op = "parse"
    /\ ~call.returned
    /\ call' = [call EXCEPT !.returned = TRUE, !.ret = parse(call)]
    /\ UNCHANGED <<crawlState, locks>>

SpecParse == ParseInit /\ [][Parse]_vars

\* ------------------------------------------------- the locked sections
\* The lock a thread needs for a section: "claim" is lines 319-323 (and
\* 394-395), "stats" is lines 813-814.
LockOf(section) == IF section = "claim" THEN DedupLock ELSE StatsLock

\* Thread t reaches the with statement of a section.
Arrive(t) ==
    /\ locks.at[t] = <<"outside">>
    /\ \E section \in {"claim", "stats"} :
         locks' = [locks EXCEPT !.at[t] = <<"waits", section>>]
    /\ UNCHANGED <<crawlState, call>>

\* Lock.acquire: thread t enters its section when the lock is free.
Acquire(t) ==
    /\ locks.at[t][1] = "waits"
    /\ locks.holder[LockOf(locks.at[t][2])] = 0
    /\ locks' = [locks EXCEPT !.holder[LockOf(locks.at[t][2])] = t,
                              !.at[t] = <<"in", locks.at[t][2]>>]
    /\ UNCHANGED <<crawlState, call>>

\* The end of the with block: thread t leaves its section.
LeaveSection(t) ==
    /\ locks.at[t][1] = "in"
    /\ locks' = [locks EXCEPT !.holder[LockOf(locks.at[t][2])] = 0,
                              !.at[t] = <<"outside">>]
    /\ UNCHANGED <<crawlState, call>>

LockStep ==
    \E t \in LockThreads :
        \/ Arrive(t)
        \/ Acquire(t)
        \/ LeaveSection(t)

\* The scraper after __init__, with the pool threads about to run.
LockInit ==
    /\ Init
    /\ ~crawl_related

SpecLocks == LockInit /\ [][LockStep]_vars

\* ------------------------------------------------------------ properties
Frames == {f \in UNION {{stack[w][k] : k \in 1..Len(stack[w])} :
                          w \in 1..num_workers} : TRUE}

Seeds == {issue_links[r] : r \in 1..Len(issue_links)}

Returned == DOMAIN all_crawled_issues

\* C1: no issue id is persisted more than once: _save_issue writes at most
\* one JSON file per id in a crawl, under every interleaving.
C1_PersistedOnce == \A id \in IssueIds : files[id] <= 1

\* Two pool threads run calls for the same id at the same time, and one of
\* them has saved it already.
C1_Witness ==
    \E w \in 1..num_workers : \E v \in 1..num_workers :
        /\ w # v
        /\ Running(w)
        /\ Running(v)
        /\ Top(w).id = Top(v).id
        /\ Top(w).pc = "claim"
        /\ Top(v).pc = "finally"
        /\ files[Top(v).id] = 1

C3_DepthAtMostMax ==
    \A w \in 1..num_workers : \A k \in 1..Len(stack[w]) :
        LET f == stack[w][k] IN
        /\ (f.pc = "related" => f.depth < max_depth)
        /\ (k > 1 => /\ stack[w][k - 1].depth < max_depth
                     /\ f.depth = stack[w][k - 1].depth + 1)
        /\ f.depth <= max_depth
        /\ (~crawl_related => f.depth = 0)

\* C3 amended: no call at depth >= max_depth starts a nested call, every
\* call has depth <= max(max_depth, 0) (the seeds run at depth 0 also when
\* max_depth is negative), and without crawl_related every call has depth 0.
C3_DepthBound ==
    \A w \in 1..num_workers : \A k \in 1..Len(stack[w]) :
        LET f == stack[w][k] IN
        /\ (f.pc = "related" => f.depth < max_depth)
        /\ (k > 1 => /\ stack[w][k - 1].depth < max_depth
                     /\ f.depth = stack[w][k - 1].depth + 1)
        /\ f.depth <= Max(max_depth, 0)
        /\ (~crawl_related => f.depth = 0)

\* A call at depth max_depth >= 1 has saved an issue that names related
\* issues and is leaving without a nested call.
C3_Witness ==
    \E f \in Frames :
        /\ f.depth = max_depth
        /\ f.depth >= 1
        /\ RelatedOf(f.id) # <<>>
        /\ f.pc = "finally"
        /\ f.result # <<>>

\* C4: in the list crawl() returns, every issue fetched by a seed call
\* carries a crawl_order in 1..N that is the rank of a search hit with its
\* id, no two entries share a crawl_order, and every issue fetched by a
\* nested call carries none.
C4_CrawlOrder ==
    pc = "returned" =>
        /\ \A i \in Returned :
             /\ (i.depth = 0 => /\ i.order \in 1..Len(issue_links)
                                /\ issue_links[i.order] = i.id)
             /\ (i.depth > 0 => i.order = 0)
             /\ (i.order # 0 => all_crawled_issues[i] = 1)
        /\ \A i \in Returned : \A j \in Returned :
             (i.order # 0 /\ i.order = j.order) => i = j

\* The returned list holds a seed fetched under its second rank and a search
\* hit fetched through a related reference.
C4_Witness ==
    /\ pc = "returned"
    /\ \E i \in Returned : i.depth = 0 /\ i.order = 3
    /\ \E i \in Returned : i.depth > 0 /\ i.id \in Seeds

RECURSIVE SumDurations(_, _)
SumDurations(b, S) ==
    IF S = {} THEN 0
    ELSE LET i == CHOOSE j \in S : TRUE
         IN  DurationMs(i.id) * b[i] + SumDurations(b, S \ {i})

\* The mean (truncated to an integer) of the fetch durations of the issues
\* in the bag b, 0 for the empty bag.
MeanDuration(b) ==
    IF BagCardinality(b) = 0 THEN 0
    ELSE SumDurations(b, DOMAIN b) \div BagCardinality(b)

\* C6: the avg_issue_time_ms written at completion is the mean of the fetch
\* durations of exactly the issues crawl() returns as crawled, 0 if none.
C6_AvgIsMean ==
    (pc = "returned" /\ db_status = "completed") =>
        db_stats.avg = MeanDuration(all_crawled_issues)

HasError(type) == \E k \in 1..Len(session_errors) : session_errors[k] = type

NothingCrawled ==
    /\ num_workers = 0
    /\ issue_links = <<>>
    /\ queue = <<>>
    /\ stack = <<>>
    /\ crawled_issue_ids = {}
    /\ all_crawled_issues = EmptyBag
    /\ issue_times = EmptyBag
    /\ \A id \in IssueIds : files[id] = 0
    /\ log.nfailed = 0
    /\ log.ndropped = 0

C9_DropIsSilent ==
    pc = "returned" =>
        /\ \A i \in Returned :
             /\ all_crawled_issues[i] = 1
             /\ \A j \in Returned : i.id = j.id => i = j
        /\ Len(session_errors) <= log.nfailed + log.other
        /\ (db_status = "completed" /\ log.other = 0 =>
              db_stats.failed <= log.nfailed)

\* C10: after an interrupt no pool thread takes a call from the queue, and
\* when issues have been saved crawl() returns a list that holds them all.
C10_Cancellation ==
    [][pc = "shutdown" =>
         /\ queue' = queue
         /\ (pc' # "shutdown" /\ \E id \in IssueIds : files'[id] > 0) =>
               /\ pc' = "returned"
               /\ \A id \in IssueIds :
                    files'[id] > 0 =>
                       \E i \in DOMAIN all_crawled_issues' : i.id = id]_vars

\* C11 as stated: build_query never puts the product into the query: the
\* result is the stripped keywords alone, for every keywords string and
\* every product, present or absent.
C11_NoProduct ==
    (call.op = "build_query" /\ call.returned) =>
        call.ret = Strip(call.keywords)

\* C12: parse returns the LLM result (method 'llm') only when the rule
\* confidence is below 0.7, a client is configured and the LLM call
\* succeeds; with a rule confidence of at least 0.7 the LLM is never
\* called; and when the LLM call fails, for whatever reason, parse does not
\* raise and returns the rule result (method 'rules').
C12_LlmFallback ==
    (call.op = "parse" /\ call.returned /\ ~call.empty) =>
        LET rules == parse_with_rules(call)
            r == call.ret
        IN  /\ (r.raised = "none" /\ r.method = "llm") =>
                  /\ rules.confidence < 70
                  /\ call.client
                  /\ call.llm = "ok"
            /\ rules.confidence >= 70 =>
                  /\ r.llm_calls = 0
                  /\ r = rules
            /\ (r.llm_calls > 0 /\ call.llm # "ok") =>
                  /\ r.raised = "none"
                  /\ r.method = "rules"
                  /\ [r EXCEPT !.llm_calls = 0] = rules

\* The client was called for a low-confidence query and something that is
\* no LLMError was raised in it; parse returned the rule result.
C12_Witness ==
    /\ call.op = "parse"
    /\ call.returned
    /\ call.llm = "Exception"
    /\ call.ret.llm_calls = 1
    /\ call.ret.raised = "none"
    /\ call.ret.method = "rules"
    /\ call.ret.confidence = 60

\* A call that holds the claim on its id: it has added the id (line 323)
\* and has not discarded it (line 395).
HoldsClaim(f) == f.pc # "claim" /\ ~f.raising

\* The calls that have started their browser and have not ended.
OpenSessions ==
    UNION {{<<w, k>> : k \in {j \in 1..Len(stack[w]) : stack[w][j].page # <<>>}} :
             w \in 1..num_workers}

AllIdle == queue = <<>> /\ \A w \in 1..num_workers : ~Running(w)

\* C13 as stated: when a call that claimed its id failed (browser start,
\* login or fetch raised) and has ended, and the id was not saved by
\* another call, the id is no longer in the dedup set.
C13_ReleasedOnFailure ==
    \A id \in log.failed :
        (files[id] = 0 /\ \A f \in Frames : f.id = id => f.pc = "claim")
            => id \notin crawled_issue_ids

\* C14 as stated: an id is in the dedup set if and only if a call in
\* progress holds the claim on it or its JSON file has been written.
C14_DedupInvariant ==
    \A id \in IssueIds :
        id \in crawled_issue_ids <=>
            \/ \E f \in Frames : f.id = id /\ HoldsClaim(f)
            \/ files[id] > 0

\* C15 as stated: a call whose JSON file write failed has failed: every
\* issue in the list crawl() returns has its file, and the crawled count
\* written counts only issues that have one.
C15_PrimaryWriteFatal ==
    pc = "returned" =>
        /\ \A i \in Returned : files[i.id] > 0
        /\ db_status = "completed" =>
              db_stats.crawled <= Cardinality({id \in IssueIds : files[id] > 0})

\* C16: a failed database operation fails neither a call nor the crawl.
\* An issue whose save_issue failed keeps its file and its claim; crawl()
\* raises only for a failed login or search; and when nothing but database
\* operations failed, crawl() returns every search hit and every issue
\* whose save_issue failed.
C16_DbFailureHarmless ==
    /\ \A id \in log.dbfailed : id \in crawled_issue_ids /\ files[id] = 1
    /\ pc = "raised" =>
          /\ exc \in {"AuthenticationError", "Exception"}
          /\ NothingCrawled
    /\ (pc = "returned" /\ log.nfailed = 0 /\ log.other = log.db) =>
          /\ exc = "none"
          /\ \A id \in Seeds \cup log.dbfailed :
               /\ files[id] = 1
               /\ \E i \in Returned : i.id = id

\* crawl() has returned a related issue whose save_issue failed in the
\* database.
C16_Witness ==
    /\ pc = "returned"
    /\ log.db = 1
    /\ log.other = 1
    /\ ExtraId \in log.dbfailed
    /\ \E i \in Returned : i.id = ExtraId

\* C17 as stated: every browser resource a call starts is closed by the
\* time the call ends: none is left open by an ended call.
C17_ReleasedOnce == \A r \in Resources : log.leaked[r] = 0

\* C18 as stated: the number of calls with an open browser session is at
\* most the pool size, hence at most 10.
C18_SessionBound ==
    /\ Cardinality(OpenSessions) <= num_workers
    /\ Cardinality(OpenSessions) <= MaxWorkers

\* C19: no page is used by two threads: the page of every call was created
\* by the pool thread that runs the call, no two calls have the same page,
\* none has self.page, and the thread of crawl() uses self.page (login,
\* search) only while no call runs.
C19_PagesNotShared ==
    /\ \A w \in 1..num_workers : \A k \in 1..Len(stack[w]) :
          LET f == stack[w][k] IN
          f.page # <<>> =>
             /\ f.page[1] = w
             /\ f.page # PrimaryPage
             /\ \A v \in 1..num_workers : \A j \in 1..Len(stack[v]) :
                  stack[v][j].page = f.page => v = w /\ j = k
    /\ pc \in {"start", "auth", "search"} => Frames = {}

\* Two pool threads have a page open at once, one of them two (a call and
\* its nested call).
C19_Witness ==
    \E w \in 1..num_workers : \E v \in 1..num_workers :
        /\ w # v
        /\ Len(stack[w]) = 2
        /\ stack[w][1].page # <<>>
        /\ stack[w][2].page # <<>>
        /\ Running(v)
        /\ Top(v).page # <<>>

\* C20: crawl() writes the final statistics and returns only when every
\* submitted call, with all its nested calls, has ended and every future
\* has been seen; after crawl() has returned nothing is fetched or saved.
C20_ReturnsAfterAll ==
    [][/\ pc' = "returned" =>
             /\ AllIdle'
             /\ done' = <<>>
             /\ pending' = 0
       /\ pc = "returned" =>
             /\ stack' = stack
             /\ files' = files
             /\ all_crawled_issues' = all_crawled_issues
             /\ crawled_issue_ids' = crawled_issue_ids
             /\ db_stats' = db_stats]_vars

\* crawl() has returned with two pool threads after a duplicate was
\* dropped, a call failed and a nested call fetched a related issue.
C20_Witness ==
    /\ pc = "returned"
    /\ num_workers = 2
    /\ log.ndropped > 0
    /\ log.nfailed > 0
    /\ \E i \in Returned : i.depth > 0

\* The number of SessionError rows of the given type.
CountErrors(type) ==
    Cardinality({k \in 1..Len(session_errors) : session_errors[k] = type})

\* The number of entries of the returned list that carry no crawl_order.
WithoutOrder ==
    BagCardinality([i \in {j \in Returned : j.order = 0}
                      |-> all_crawled_issues[i]])

\* The ids within d related references of a search hit.
RECURSIVE Reachable(_)
Reachable(d) ==
    IF d <= 0 THEN Seeds
    ELSE LET R == Reachable(d - 1) IN
         R \cup UNION {{RelatedOf(i)[k] : k \in 1..Len(RelatedOf(i))} : i \in R}

\* C22 as stated: the failed_issues written at completion is never
\* negative, and when no call was dropped as a duplicate and the only
\* failures are calls that raised before saving (browser start, login,
\* fetch) it is their number.
C22_FailedCount ==
    (pc = "returned" /\ db_status = "completed") =>
        /\ db_stats.failed >= 0
        /\ (log.other = 0 /\ log.ndropped = 0) =>
              db_stats.failed = log.nfailed

\* C23 as stated: the related_issues written at completion is the number of
\* returned issues that carry no crawl_order, and is never negative.
C23_RelatedCount ==
    (pc = "returned" /\ db_status = "completed") =>
        /\ db_stats.related >= 0
        /\ db_stats.related = WithoutOrder

\* C24 as stated: every issue that was fetched and saved is in the list
\* crawl() returns, exactly once, and issues_crawled is the length of the
\* list.
C24_ExactlySuccessful ==
    pc = "returned" =>
        /\ \A id \in IssueIds :
              files[id] > 0 =>
                 Cardinality({i \in Returned : i.id = id}) = 1
        /\ \A i \in Returned : all_crawled_issues[i] = 1
        /\ db_status = "completed" =>
              db_stats.crawled = BagCardinality(all_crawled_issues)

\* C25 as stated: with a session record and a working database, every
\* call that failed, submitted or nested, has one SessionError row.
C25_OneErrorPerFailure ==
    (pc = "returned" /\ session_id # 0 /\ log.other = 0) =>
        CountErrors("crawl_error") = log.nfailed

\* C26 as stated: a failure inside process_attachments never fails the
\* issue: its call does not fail, and when nothing else failed the issue is
\* saved and returned.
C26_AttachmentHarmless ==
    /\ \A id \in log.attach : id \notin log.failed
    /\ (pc = "returned" /\ Faults = 1) =>
          \A id \in log.attach :
             /\ files[id] = 1
             /\ \E i \in Returned : i.id = id

\* C30 as stated: with crawl_related and no failure at all, every id within
\* max_depth related references of a search hit is saved, under every
\* interleaving.
C30_ScheduleIndependent ==
    (pc = "returned" /\ crawl_related /\ Faults = 0) =>
        \A id \in Reachable(max_depth) : files[id] = 1

\* C27 as stated: when crawl() returns or raises with a session record and
\* a working database, the record is completed (returned) or failed
\* (raised), never running; and a completed or failed record is never
\* changed.
C27_TerminalStatus ==
    [][/\ (pc' \in {"returned", "raised"} /\ session_id' # 0 /\ log'.db = 0) =>
             /\ pc' = "returned" => db_status' = "completed"
             /\ pc' = "raised" => db_status' = "failed"
       /\ db_status \in {"completed", "failed"} =>
             /\ db_status' = db_status
             /\ db_stats' = db_stats]_vars

\* C29: for every number of search hits N >= 0 the pool size is at least 1
\* and at most 10, and it is non-decreasing in N: no smaller N gets a
\* larger pool.
C29_WorkerRange ==
    pc = "sized" =>
        /\ num_workers >= 1
        /\ num_workers <= 10
        /\ \A m \in 0..Len(issue_links) : WorkerCount(m) <= num_workers

\* The degenerate search with no hit still gets one pool thread.
C29_Witness == pc = "sized" /\ Len(issue_links) = 0 /\ num_workers = 1

\* C28: the crawl terminates: with threads that keep running, crawl()
\* returns or raises, for every number of search hits, with cycles and
\* self-references among the related issues, for every max_depth and every
\* placement of the failures.
C28_Terminates == <>(pc \in {"returned", "raised"})

\* crawl() has returned an issue whose first call failed and released the
\* claim, and which a later call claimed and fetched again; the issue that
\* names itself was crawled too.
C28_Witness ==
    /\ pc = "returned"
    /\ \E i \in Returned : i.id \in log.failed
    /\ files[ExtraId] = 1

\* C21 as stated: the duration list is guarded by a lock other than the
\* one of the dedup set: a thread that stands at the statistics section is
\* never kept out by a thread that is inside the dedup section.
C21_SeparateLocks ==
    \A t \in LockThreads : \A u \in LockThreads :
        (locks.at[t] = <<"waits", "stats">> /\ locks.at[u] = <<"in", "claim">>)
            => locks.holder[StatsLock] # u

====
